---- MODULE Spec2Model ----
\* Model of phira's MainScene (src/phira/src/scene/main.rs): the page
\* stack, the fader-driven push/pop transitions, the background-music
\* coordination and the import pipeline driven from update().
EXTENDS Integers, Sequences, FiniteSets, TLC

\* ---------------------------------------------------------------- bounds
MaxTime == 3      \* the clock tm.now() runs over 0..MaxTime
MaxPages == 3     \* pages ever created (the first page included)
MaxFiles == 2     \* (tag, file) pairs ever handed in

\* ------------------------------------------------------------- constants
LOW_PASS == 95    \* const LOW_PASS: f32 = 0.95, in hundredths
FadeTime == 1     \* duration of a transition, in clock ticks
NaN == -1         \* the fader's start_time when no transition is in flight
None == 0         \* an empty Option holding an id

VARIABLES
    now,            \* tm.now()
    fader,          \* self.state.fader
    pages,          \* self.pages
    bgm,            \* self.bgm
    import_task,    \* self.import_task: None or the id of the task
    tasks,          \* the result cell of every task submitted so far
    chosen_file,    \* the inbound (tag, file) slot behind take_file
    charts,         \* get_data().charts
    respacks,       \* get_data().respacks
    saved,          \* the store as last written by save_data()
    root_dirs,      \* the directories of dir::respacks()
    uuid_clock,     \* the last identifier uuid7() gave out
    respack_item,   \* RESPACK_ITEM
    volume_updated, \* BGM_VOLUME_UPDATED
    nextId,         \* id of the next page to be created
    nFiles,         \* files handed in so far
    inflight,       \* transitions started and not yet completed
    panicked,       \* a handler panicked
    last            \* what the last handler did, as seen by its collaborators

vars == <<now, fader, pages, bgm, import_task, tasks, chosen_file, charts,
          respacks, saved, root_dirs, uuid_clock, respack_item,
          volume_updated, nextId, nFiles, inflight, panicked, last>>

\* ------------------------------------------------------------- helpers
NoPage == [id |-> None, bgm |-> FALSE]
PageAt(ps, i) == IF i \in DOMAIN ps THEN ps[i] ELSE NoPage
Top(ps) == PageAt(ps, Len(ps))
Parent(ps) == PageAt(ps, Len(ps) - 1)
Front(ps) == SubSeq(ps, 1, Len(ps) - 1)
Last(ps) == ps[Len(ps)]
NoItem == [name |-> <<>>, path |-> <<>>]
NoFile == [tag |-> "-", file |-> None]
Tags == {"_import", "_import_respack", "other"}

\* The observable effects of one handler run.
NoEv == [op |-> "init", ret |-> "-", touched |-> None, back_hit |-> FALSE,
         hooks |-> <<>>, audio |-> <<>>, msgs |-> <<>>, hit |-> "none",
         answer |-> "-", polled |-> "-", file |-> "-", fault |-> "-",
         on_back |-> FALSE, item |-> NoItem]
EvOf(op) == [NoEv EXCEPT !.op = op]

\* The handler-visible state, threaded through the steps of a handler.
\* self.state.t is written from tm.now() before a handler reads it, so it
\* lives here and not among the variables.
Cur == [t |-> now, fader |-> fader, pages |-> pages, bgm |-> bgm,
        import_task |-> import_task, tasks |-> tasks,
        chosen_file |-> chosen_file, charts |-> charts,
        respacks |-> respacks, saved |-> saved, root_dirs |-> root_dirs,
        uuid_clock |-> uuid_clock,
        respack_item |-> respack_item, volume_updated |-> volume_updated,
        nextId |-> nextId, inflight |-> inflight,
        panicked |-> panicked, ev |-> NoEv]

Install(r) ==
    /\ fader' = r.fader
    /\ pages' = r.pages
    /\ bgm' = r.bgm
    /\ import_task' = r.import_task
    /\ tasks' = r.tasks
    /\ chosen_file' = r.chosen_file
    /\ charts' = r.charts
    /\ respacks' = r.respacks
    /\ saved' = r.saved
    /\ root_dirs' = r.root_dirs
    /\ uuid_clock' = r.uuid_clock
    /\ respack_item' = r.respack_item
    /\ volume_updated' = r.volume_updated
    /\ nextId' = r.nextId
    /\ inflight' = r.inflight
    /\ panicked' = r.panicked
    /\ last' = r.ev

Ret(s, r) == [s EXCEPT !.ev.ret = r]
Fail(s, point) == [s EXCEPT !.ev.ret = "err", !.ev.hit = point]
Panic(s) == [s EXCEPT !.ev.ret = "panic", !.panicked = TRUE]
Hook(s, h, id) == [s EXCEPT !.ev.hooks = Append(@, <<h, id>>)]
Msg(s, m) == [s EXCEPT !.ev.msgs = Append(@, m)]

\* ------------------------------------------------------------- fader
Transiting(f) == f.start_time # NaN
FaderSub(f, time) == [f EXCEPT !.start_time = time, !.back = FALSE]
FaderBack(f, time) == [f EXCEPT !.start_time = time, !.back = TRUE]
\* done(t): Some(back) once the transition's time has passed, clearing it
FaderIsDone(f, time) == Transiting(f) /\ time >= f.start_time + FadeTime
FaderDone(f, time) ==
    IF FaderIsDone(f, time)
    THEN [fader |-> [f EXCEPT !.start_time = NaN],
          res |-> IF f.back THEN "true" ELSE "false"]
    ELSE [fader |-> f, res |-> "None"]

\* ------------------------------------------------------------- music
\* An audio call on self.bgm: nothing without a Music, no effect when it
\* fails; bgm.cmd keeps the last fade command issued, whatever its outcome
BgmCall(s, call, fails) ==
    IF ~s.bgm.present THEN s
    ELSE LET logged == [s EXCEPT !.ev.audio =
                            Append(@, <<call, IF fails THEN "err" ELSE "ok">>)]
             issued == CASE call = "fade_in" -> [logged EXCEPT !.bgm.cmd = "in"]
                         [] call = "fade_out" ->
                                [logged EXCEPT !.bgm.cmd = "out"]
                         [] OTHER -> logged
         IN  IF fails THEN issued
             ELSE CASE call = "fade_in" -> [issued EXCEPT !.bgm.fade = "in"]
                    [] call = "fade_out" -> [issued EXCEPT !.bgm.fade = "out"]
                    [] call = "low_pass_on" ->
                           [issued EXCEPT !.bgm.low_pass = LOW_PASS]
                    [] call = "low_pass_off" ->
                           [issued EXCEPT !.bgm.low_pass = 0]
                    [] OTHER -> issued

\* ------------------------------------------------------------- pop
\* the parent index pages.len() - 2 names a page
ParentIndexOk_M(ps) == TRUE
ParentIndexOk(ps) == Len(ps) >= 2

\* the pop leaves a page without music for one that can play it
PopFadesIn_M(ps) == ~Top(ps).bgm
PopFadesIn(ps) == ~Top(ps).bgm /\ Parent(ps).bgm

\* MainScene::pop; the parent is read only when the top cannot play music
pop(s, fadeFails) ==
    LET back(x) == [x EXCEPT !.fader = FaderBack(@, x.t), !.inflight = @ + 1]
    IN  IF ~Top(s.pages).bgm /\ ~ParentIndexOk(s.pages) THEN Panic(s)
        ELSE IF PopFadesIn(s.pages)
        THEN back(BgmCall(s, "fade_in", fadeFails))
        ELSE back(s)

\* ------------------------------------------------------------- touch
\* touch returns at once while a transition is in flight
TouchBlockedByFader_M(f) == FALSE
TouchBlockedByFader(f) == Transiting(f)

\* what a touch hits and how the calls it reaches turn out; a touch that is
\* turned away reads none of it
TouchInputs ==
    IF TouchBlockedByFader(fader) \/ import_task # None
    THEN [hitBack : {FALSE}, pageRes : {"false"}, failAt : {"none"},
          fadeFails : {FALSE}]
    ELSE [hitBack : BOOLEAN, pageRes : {"true", "false", "err"},
          failAt : IF bgm.present /\ Len(pages) = 2
                   THEN {"none", "low_pass"} ELSE {"none"},
          fadeFails : IF bgm.present /\ Len(pages) >= 2
                      THEN BOOLEAN ELSE {FALSE}]

\* the back button takes the touch
BackTaken(s, in) == in.hitBack /\ Len(s.pages) > 1

\* Scene::touch for MainScene
touch(s0, in) ==
    LET s == [s0 EXCEPT !.ev = EvOf("touch")]
        s1 == [s EXCEPT !.t = now, !.ev.back_hit = TRUE,
                        !.ev.on_back = in.hitBack]
        lowFails == s1.bgm.present /\ in.failAt = "low_pass"
        s2 == IF Len(s1.pages) = 2
              THEN BgmCall(s1, "low_pass_off", lowFails) ELSE s1
        s3 == pop(s2, in.fadeFails)
        s4 == [s1 EXCEPT !.ev.touched = Top(s1.pages).id]
    IN  IF TouchBlockedByFader(s.fader) THEN Ret(s, "false")
        ELSE IF s.import_task # None THEN Ret(s, "true")
        ELSE IF BackTaken(s1, in)
        THEN IF Len(s1.pages) = 2 /\ lowFails THEN Fail(s2, "low_pass")
             ELSE IF s3.panicked THEN s3 ELSE Ret(s3, "true")
        ELSE IF s1.pages = <<>> THEN Panic(s1)
        ELSE IF in.pageRes = "err" THEN Fail(s4, "page_touch")
        ELSE Ret(s4, in.pageRes)

Touch ==
    /\ ~panicked
    /\ \E in \in TouchInputs : Install(touch(Cur, in))
    /\ UNCHANGED <<now, nFiles>>

\* ------------------------------------------------------------- render
\* Scene::render for MainScene: draws, and reads the parent while transiting
render(s0) ==
    LET s == [s0 EXCEPT !.ev = EvOf("render"), !.t = now]
    IN  IF Transiting(s.fader) /\ ~ParentIndexOk(s.pages) THEN Panic(s)
        ELSE IF s.pages = <<>> THEN Panic(s)
        ELSE Ret(s, "ok")

Render ==
    /\ ~panicked
    /\ Install(render(Cur))
    /\ UNCHANGED <<now, nFiles>>

\* ------------------------------------------------------------- clock
\* The clock is only read to time a transition, so its advance is modelled
\* while one is in flight and not yet over.
Tick ==
    /\ ~panicked
    /\ now < MaxTime
    /\ Transiting(fader) /\ ~FaderIsDone(fader, now)
    /\ now' = now + 1
    /\ last' = EvOf("env")
    /\ UNCHANGED <<fader, pages, bgm, import_task, tasks, chosen_file,
                   charts, respacks, saved, root_dirs, uuid_clock, respack_item,
                   volume_updated, nextId, nFiles, inflight, panicked>>

\* ------------------------------------------------------------- update
\* next_page() is asked only when no transition is in flight
UpdateNavAllowed_M(f) == TRUE
UpdateNavAllowed(f) == ~Transiting(f)

\* where a call of update may fail: the first failing call reached decides.
\* Only the calls the state lets update reach are offered.
UpdateFailPoints ==
    {"none", "recover", "page_update"}
    \cup (IF UpdateNavAllowed(fader) THEN {"sub_enter"} ELSE {"exit", "enter"})
    \cup (IF bgm.present /\ UpdateNavAllowed(fader) THEN {"low_pass"} ELSE {})
    \cup (IF bgm.present /\ volume_updated THEN {"amplifier"} ELSE {})
    \cup (IF import_task # None THEN {"save"} ELSE {})
\* the stages of the resource-pack import, in order; "none": all succeed
AllRespackFaults ==
    {"none", "root", "dir_new", "exists", "create_dir", "open_dir",
     "file_open", "unzip", "manifest_open", "manifest_parse", "save"}
RespackFaults ==
    IF chosen_file.tag = "_import_respack" THEN AllRespackFaults ELSE {"none"}
\* what the top page's next_page() answers; an overlay can or cannot play bgm
Answers ==
    IF ~UpdateNavAllowed(fader) THEN {[kind |-> "none", bgm |-> FALSE]}
    ELSE {[kind |-> "none", bgm |-> FALSE], [kind |-> "pop", bgm |-> FALSE]}
         \cup (IF nextId <= MaxPages
               THEN {[kind |-> "overlay", bgm |-> FALSE],
                     [kind |-> "overlay", bgm |-> TRUE]}
               ELSE {})
FadeOutcomes ==
    IF bgm.present /\ UpdateNavAllowed(fader) THEN BOOLEAN ELSE {FALSE}
\* an input that the failing call keeps update from reading is left out
UpdateInputs ==
    {in \in [failAt : UpdateFailPoints, fadeFails : FadeOutcomes,
             answer : Answers, fault : RespackFaults] :
        /\ in.failAt \in {"recover", "page_update"} =>
              in.answer.kind = "none" /\ ~in.fadeFails /\ in.fault = "none"
        /\ in.failAt \in {"low_pass", "sub_enter"} =>
              in.answer.kind = "overlay" /\ ~in.fadeFails /\ in.fault = "none"
        /\ in.failAt \in {"exit", "enter", "amplifier", "save"} =>
              in.fault = "none"
        /\ in.fadeFails => in.answer.kind # "none"}

\* `if let Some(true) = s.fader.done(s.t)`: only a finished pop removes a page
CompletionPops_M(res) == res # "None"
CompletionPops(res) == res = "true"

\* the page pushed cannot play the music
PushFadesOut_M(sub) == FALSE
PushFadesOut(sub) == ~sub.bgm

\* NextPage::Overlay(sub)
push(s, in) ==
    LET sub == [id |-> s.nextId, bgm |-> in.answer.bgm]
        made == [s EXCEPT !.nextId = @ + 1]
        lowFails == made.bgm.present /\ in.failAt = "low_pass"
        s1 == IF Len(made.pages) = 1
              THEN BgmCall(made, "low_pass_on", lowFails) ELSE made
        s2 == Hook(s1, "enter", sub.id)
        s3 == IF PushFadesOut(sub)
              THEN BgmCall(s2, "fade_out", in.fadeFails) ELSE s2
    IN  IF Len(made.pages) = 1 /\ lowFails THEN Fail(s1, "low_pass")
        ELSE IF in.failAt = "sub_enter" THEN Fail(s2, "sub_enter")
        ELSE [s3 EXCEPT !.pages = Append(@, sub),
                        !.fader = FaderSub(@, s3.t),
                        !.inflight = @ + 1]

\* the `else if let Some(true) = s.fader.done(s.t)` arm
complete(s, in) ==
    LET d == FaderDone(s.fader, s.t)
        s1 == [s EXCEPT !.fader = d.fader,
                        !.inflight = IF d.res = "None" THEN @ ELSE @ - 1]
        removed == Top(s1.pages)
        s2 == Hook([s1 EXCEPT !.pages = Front(@)], "exit", removed.id)
        s3 == Hook(s2, "enter", Top(s2.pages).id)
    IN  IF ~CompletionPops(d.res) THEN s1
        ELSE IF s1.pages = <<>> THEN Panic(s1)
        ELSE IF in.failAt = "exit" THEN Fail(s2, "exit")
        ELSE IF s2.pages = <<>> THEN Panic(s2)
        ELSE IF in.failAt = "enter" THEN Fail(s3, "enter")
        ELSE s3

\* lines 195-227: the pages' updates and the navigation step
navigate(s0, in) ==
    LET s == [s0 EXCEPT !.t = now]
        asked == [s EXCEPT !.ev.answer = in.answer.kind]
    IN  IF Transiting(s.fader) /\ ~ParentIndexOk(s.pages) THEN Panic(s)
        ELSE IF s.pages = <<>> THEN Panic(s)
        ELSE IF in.failAt = "page_update" THEN Fail(s, "page_update")
        ELSE IF UpdateNavAllowed(s.fader)
        THEN CASE in.answer.kind = "overlay" -> push(asked, in)
               [] in.answer.kind = "pop" -> pop(asked, in.fadeFails)
               [] OTHER -> asked
        ELSE complete(s, in)

\* lines 228-232: BGM_VOLUME_UPDATED is read and cleared only with a Music
amplify(s, in) ==
    IF s.bgm.present /\ s.volume_updated
    THEN LET s1 == BgmCall([s EXCEPT !.volume_updated = FALSE],
                           "set_amplifier", in.failAt = "amplifier")
         IN  IF in.failAt = "amplifier" THEN Fail(s1, "amplifier") ELSE s1
    ELSE s

\* save_data()
Store(s) == [charts |-> s.charts, respacks |-> s.respacks]

\* lines 233-248: poll the import task
poll(s, in) ==
    IF s.import_task = None THEN s
    ELSE LET id == s.import_task
             res == s.tasks[id].status
             took == [s EXCEPT !.tasks[id].status = "taken", !.ev.polled = res]
             failed == Msg(took, "import-failed")
             pushed == [Msg(took, "import-success") EXCEPT
                            !.charts = Append(@, s.tasks[id].file)]
             flushed == [pushed EXCEPT !.saved = Store(pushed)]
         IN  IF res \notin {"ok", "err"} THEN [s EXCEPT !.ev.polled = "pending"]
             ELSE IF res = "err" THEN [failed EXCEPT !.import_task = None]
             ELSE IF in.failAt = "save" THEN Fail(pushed, "save")
             ELSE [flushed EXCEPT !.import_task = None]

\* the pipeline appends the id once the manifest has been parsed
RespackCommits_M(fault) == fault \in {"none", "save", "manifest_parse"}
RespackCommits(fault) == fault \in {"none", "save"}

\* the directory <root>/<id> has been created when the pipeline stops
RespackDirMade(fault) ==
    fault \notin {"root", "dir_new", "exists", "create_dir"}

\* format!("{root}/{id}")
RespackPath(id) == <<"respacks", id>>
\* config.name of the archive's info.yml
ManifestName(file) == <<"name", file>>

\* uuid7() is time-ordered: every call yields the next identifier
RECURSIVE FreshId(_, _)
\* `let mut id = uuid7(); while dir.exists(id)? { id = uuid7(); }`
FreshId(clock, dirs) ==
    IF (clock + 1) \in dirs THEN FreshId(clock + 1, dirs) ELSE clock + 1

\* the pipeline draws identifiers once it has opened the root
RespackDraws(fault) == fault \notin {"root", "dir_new"}

\* lines 254-280: the resource-pack import
import_respack(s, file, in) ==
    LET id == FreshId(s.uuid_clock, s.root_dirs)
        s1 == [s EXCEPT !.ev.fault = in.fault,
                        !.uuid_clock = IF RespackDraws(in.fault) THEN id ELSE @,
                        !.root_dirs = IF RespackDirMade(in.fault)
                                      THEN @ \cup {id} ELSE @]
        s2 == IF RespackCommits(in.fault)
              THEN [s1 EXCEPT !.respacks = Append(@, id)] ELSE s1
        s3 == [s2 EXCEPT !.saved = Store(s2),
                         !.respack_item = [name |-> ManifestName(file),
                                           path |-> RespackPath(id)]]
    IN  IF in.fault # "none" THEN Msg(s2, "import-respack-failed")
        ELSE Msg(s3, "import-respack-success")

\* return_file(id, file)
ReturnFile_M(s, f) == s
ReturnFile(s, f) == [s EXCEPT !.chosen_file = f]

\* lines 249-283: route the inbound file
route(s, in) ==
    LET f == s.chosen_file
        took == [s EXCEPT !.chosen_file = NoFile, !.ev.file = f.tag]
    IN  IF f = NoFile THEN s
        ELSE CASE f.tag = "_import" ->
                    [took EXCEPT
                        !.tasks = Append(@, [file |-> f.file,
                                             status |-> "running"]),
                        !.import_task = Len(s.tasks) + 1]
               [] f.tag = "_import_respack" -> import_respack(took, f.file, in)
               [] OTHER -> ReturnFile(took, f)

Returned(s) == s.ev.ret # "-"

\* Scene::update for MainScene
update(s0, in) ==
    LET s == [s0 EXCEPT !.ev = EvOf("update")]
        s1 == navigate(s, in)
        s2 == amplify(s1, in)
        s3 == poll(s2, in)
        s4 == route(s3, in)
    IN  IF in.failAt = "recover" THEN Fail(s, "recover")
        ELSE IF Returned(s1) THEN s1
        ELSE IF Returned(s2) THEN s2
        ELSE IF Returned(s3) THEN s3
        ELSE Ret(s4, "ok")

Update ==
    /\ ~panicked
    /\ \E in \in UpdateInputs : Install(update(Cur, in))
    /\ UNCHANGED <<now, nFiles>>

\* ------------------------------------------------------------- environment
\* the task's worker finishes import_chart
Worker ==
    /\ ~panicked
    /\ \E i \in DOMAIN tasks, r \in {"ok", "err"} :
          /\ tasks[i].status = "running"
          /\ tasks' = [tasks EXCEPT ![i].status = r]
    /\ last' = EvOf("env")
    /\ UNCHANGED <<now, fader, pages, bgm, import_task, chosen_file,
                   charts, respacks, saved, root_dirs, uuid_clock, respack_item,
                   volume_updated, nextId, nFiles, inflight, panicked>>

\* a page or the platform hands in a chosen file
SetFile ==
    /\ ~panicked
    /\ nFiles < MaxFiles
    /\ \E tag \in Tags : chosen_file' = [tag |-> tag, file |-> nFiles + 1]
    /\ nFiles' = nFiles + 1
    /\ last' = EvOf("env")
    /\ UNCHANGED <<now, fader, pages, bgm, import_task, tasks, charts,
                   respacks, saved, root_dirs, uuid_clock, respack_item,
                   volume_updated, nextId, inflight, panicked>>

\* the settings change the music volume; the flag is read only with a Music
SetVolume ==
    /\ ~panicked
    /\ bgm.present
    /\ ~volume_updated
    /\ volume_updated' = TRUE
    /\ last' = EvOf("env")
    /\ UNCHANGED <<now, fader, pages, bgm, import_task, tasks,
                   chosen_file, charts, respacks, saved, root_dirs, uuid_clock,
                   respack_item, nextId, nFiles, inflight, panicked>>

\* Option::take: what the slot holds afterwards
TakeItem_M(item) == item
TakeItem(item) == NoItem

\* MainScene::take_imported_respack
TakeImportedRespack ==
    /\ ~panicked
    /\ respack_item' = TakeItem(respack_item)
    /\ last' = [EvOf("take") EXCEPT !.item = respack_item]
    /\ UNCHANGED <<now, fader, pages, bgm, import_task, tasks,
                   chosen_file, charts, respacks, saved, root_dirs, uuid_clock,
                   volume_updated, nextId, nFiles, inflight, panicked>>

\* ------------------------------------------------------------- the system
\* MainScene::new (HomePage, with or without music) or new_with(page)
Init ==
    /\ now = 0
    /\ fader = [start_time |-> NaN, back |-> FALSE]
    /\ \E music \in BOOLEAN, play \in BOOLEAN :
          /\ music => play
          /\ pages = <<[id |-> 1, bgm |-> play]>>
          /\ bgm = [present |-> music, low_pass |-> 0, fade |-> "none",
                    cmd |-> "none"]
    /\ import_task = None
    /\ tasks = <<>>
    /\ chosen_file = NoFile
    /\ charts = <<>>
    /\ respacks = <<>>
    /\ saved = [charts |-> <<>>, respacks |-> <<>>]
    /\ root_dirs = {1}
    /\ uuid_clock = 0
    /\ respack_item = NoItem
    /\ volume_updated = FALSE
    /\ nextId = 2
    /\ nFiles = 0
    /\ inflight = 0
    /\ panicked = FALSE
    /\ last = NoEv

Next ==
    \/ Tick
    \/ Touch
    \/ Update
    \/ Render
    \/ Worker
    \/ SetFile
    \/ SetVolume
    \/ TakeImportedRespack

Spec == Init /\ [][Next]_vars

\* Navigation on its own: no file is handed in, so the import side is idle.
NavNext ==
    \/ Tick
    \/ Touch
    \/ Update
    \/ Render
    \/ SetVolume

NavSpec == Init /\ [][NavNext]_vars

\* The import side on its own: the clock stands still, so a transition that
\* has started stays in flight.
ImportNext ==
    \/ Touch
    \/ Update
    \/ Render
    \/ Worker
    \/ SetFile
    \/ SetVolume
    \/ TakeImportedRespack

ImportSpec == Init /\ [][ImportNext]_vars

\* =============================================================== claims
StartsPush == ~Transiting(fader) /\ Transiting(fader') /\ ~fader'.back
StartsPop == ~Transiting(fader) /\ Transiting(fader') /\ fader'.back
EndsPush == Transiting(fader) /\ ~Transiting(fader') /\ ~fader.back
EndsPop == Transiting(fader) /\ ~Transiting(fader') /\ fader.back
AudioFailed(ev) == \E i \in DOMAIN ev.audio : ev.audio[i][2] = "err"
Shown(ev, m) == \E i \in DOMAIN ev.msgs : ev.msgs[i] = m

\* C1: whatever the pages answer and whatever is touched, updated or
\* rendered, the stack holds at least one page and its first page is the
\* page the scene was built with.
C1_StackKeepsBottom == Len(pages) >= 1 /\ pages[1].id = 1

\* a pop has just completed and left the first page alone on the stack
C1_Witness ==
    /\ Len(pages) = 1
    /\ last.op = "update"
    /\ Len(last.hooks) = 2
    /\ last.hooks[1][1] = "exit"

\* C2: at most one transition is in flight; while one is in flight no step
\* starts another, changes its direction or start, or touches the stack,
\* and each transition started is completed once, when the fader clears.
C2_TransitionsAtomic ==
    /\ [](inflight = IF Transiting(fader) THEN 1 ELSE 0)
    /\ [][Transiting(fader) /\ Transiting(fader')
              => fader' = fader /\ pages' = pages]_vars

\* an update ran while a transition was in flight and left it in flight
C2_Witness ==
    /\ Transiting(fader)
    /\ last.op = "update"
    /\ last.ret = "ok"
    /\ Len(pages) = 2

\* C3: every import task submitted so far either still occupies the slot or
\* has had its result consumed: a later submission never replaces it.
C3_TaskNeverDropped ==
    \A i \in DOMAIN tasks : tasks[i].status # "taken" => import_task = i

\* C4: a task whose result has been taken by the poll no longer occupies
\* the slot, whatever the result and whatever the outcome of saving.
C4_SlotClearedAfterPoll ==
    import_task # None => tasks[import_task].status # "taken"

\* C5: the respack-id list grows only by the id of a pipeline run in which
\* every stage up to the manifest parse succeeded, the chart list grows only
\* by the chart of a successfully polled import, and a failed stage or a
\* failed chart import leaves its list as it was and shows an error.
StageFaults == AllRespackFaults \ {"none", "save"}
C5_NoPartialRegistration ==
    [][/\ respacks' # respacks =>
            /\ last'.fault \in {"none", "save"}
            /\ Front(respacks') = respacks
            /\ Last(respacks') \notin root_dirs
       /\ charts' # charts =>
            /\ last'.polled = "ok"
            /\ Front(charts') = charts
       /\ (last'.op = "update" /\ last'.fault \in StageFaults) =>
            /\ respacks' = respacks
            /\ Shown(last', "import-respack-failed")
       /\ (last'.op = "update" /\ last'.polled = "err") =>
            /\ charts' = charts
            /\ Shown(last', "import-failed")]_vars

\* the manifest of a resource pack failed to parse and an error was shown
C5_Witness ==
    /\ last.op = "update"
    /\ last.fault = "manifest_parse"
    /\ Shown(last, "import-respack-failed")
    /\ respacks = <<>>

\* C6: when the only page of the stack answers Pop while idle, the update
\* starts no transition, leaves stack, fader and music alone and does not
\* panic on the missing parent.
C6_PopAtDepthOneIsNoOp ==
    [][(Len(pages) = 1 /\ last'.op = "update" /\ last'.answer = "pop")
           => UNCHANGED <<pages, fader, bgm>> /\ ~panicked']_vars

\* C7: while an import task occupies the slot no touch reaches the back
\* button or a page, and no step changes the stack or starts a transition.
C7_BusyBlocksNavigation ==
    [][import_task # None =>
           /\ last'.op = "touch" => last'.touched = None /\ ~last'.back_hit
           /\ pages' = pages
           /\ ~Transiting(fader) => ~Transiting(fader')]_vars

\* C8: a touch during a transition reaches neither the back button nor a
\* page and leaves stack, fader and music as they were; a touch that does
\* reach a page reaches the top page, with no transition in flight and no
\* import outstanding.
C8_TouchGated ==
    [][last'.op = "touch" =>
           /\ Transiting(fader) =>
                /\ last'.touched = None
                /\ ~last'.back_hit
                /\ UNCHANGED <<pages, fader, bgm>>
           /\ last'.touched # None =>
                /\ last'.touched = Top(pages).id
                /\ ~Transiting(fader)
                /\ import_task = None]_vars

\* a touch arrived during a transition and was turned away
C8_Witness ==
    /\ last.op = "touch"
    /\ last.ret = "false"
    /\ last.touched = None
    /\ Transiting(fader)

\* the hooks a step ran leave no exited page on the stack
ExitedPagesGone ==
    \A i \in DOMAIN last'.hooks :
        last'.hooks[i][1] = "exit" =>
            \A j \in DOMAIN pages' : pages'[j].id # last'.hooks[i][2]

C10_AudioFailuresSwallowed ==
    [][AudioFailed(last') =>
           /\ last'.hit \notin {"low_pass", "amplifier"}
           /\ (last'.answer = "overlay" /\ last'.hit # "sub_enter") =>
                Len(pages') = Len(pages) + 1 /\ Transiting(fader')
           /\ last'.op = "touch" => Transiting(fader')]_vars

Issued(ev, call) == \E i \in DOMAIN ev.audio : ev.audio[i][1] = call

\* C11: every step that starts the pop of the only overlay (depth 2), be it
\* the back button in touch or the page's NextPage::Pop in update, leaves
\* the low-pass filter off.
C11_PopOfOnlyOverlayClearsLowPass ==
    [][(StartsPop /\ Len(pages) = 2) => bgm'.low_pass = 0]_vars

\* C12: whenever the low-pass filter is engaged the stack holds exactly two
\* pages.
C12_LowPassOnlyAtDepthTwo == bgm.low_pass # 0 => Len(pages) = 2

\* C13: an update whose respack import succeeds appends exactly one id to
\* the respack list, an id with no directory under the root when it was
\* drawn, stores the lists, and leaves in RESPACK_ITEM the manifest's name
\* with the path <root>/<id>; nothing else fills the slot;
\* take_imported_respack returns what the slot holds and leaves it empty.
C13_RespackImportHandsOff ==
    [][/\ (last'.op = "update" /\ last'.fault = "none") =>
            /\ Front(respacks') = respacks
            /\ Last(respacks') \notin root_dirs
            /\ Last(respacks') \in root_dirs'
            /\ saved' = [charts |-> charts', respacks |-> respacks']
            /\ respack_item' = [name |-> ManifestName(chosen_file.file),
                                path |-> RespackPath(Last(respacks'))]
       /\ (respack_item' # respack_item /\ respack_item' # NoItem) =>
            (last'.op = "update" /\ last'.fault = "none")
       /\ last'.op = "take" =>
            last'.item = respack_item /\ respack_item' = NoItem]_vars

\* an imported respack has been taken out of the slot, which is empty again
C13_Witness ==
    /\ last.op = "take"
    /\ last.item # NoItem
    /\ last.item.path = RespackPath(Last(respacks))
    /\ respack_item = NoItem

\* C14: with a Music, the update that pushes a page unable to play it at
\* depth 1 engages the low-pass and issues the fade-out in that same step;
\* the step that starts a pop from such a page to one able to play it
\* issues the fade-in; the steps that complete a transition issue no fade.
C14_AudioWithTheTrigger ==
    [][/\ (StartsPush /\ bgm.present /\ Len(pages) = 1
                      /\ ~Top(pages').bgm) =>
            /\ Issued(last', "low_pass_on")
            /\ Issued(last', "fade_out")
            /\ bgm'.low_pass = LOW_PASS
            /\ bgm'.cmd = "out"
       /\ (StartsPop /\ bgm.present /\ ~Top(pages).bgm
                     /\ Parent(pages).bgm) =>
            Issued(last', "fade_in") /\ bgm'.cmd = "in"
       /\ (EndsPush \/ EndsPop) =>
            /\ ~Issued(last', "fade_in")
            /\ ~Issued(last', "fade_out")
            /\ bgm'.cmd = bgm.cmd]_vars

\* a page unable to play the music was pushed at depth 1 and the push is
\* still in flight, the filter on and the fade-out issued
C14_Witness ==
    /\ Transiting(fader) /\ ~fader.back
    /\ Len(pages) = 2
    /\ ~Top(pages).bgm
    /\ Issued(last, "fade_out")
    /\ bgm.low_pass = LOW_PASS

\* C15: a touch on the back button that is let through (no transition in
\* flight, no import outstanding) starts a pop, returns Ok(true) and does
\* not reach the top page when the stack holds two pages or more; with one
\* page it starts no pop and goes to the top page.
C15_BackButtonPops ==
    [][(last'.op = "touch" /\ last'.on_back) =>
           IF Len(pages) >= 2
           THEN StartsPop /\ last'.ret = "true" /\ last'.touched = None
           ELSE ~Transiting(fader') /\ last'.touched = Top(pages).id]_vars

\* C16: the pair an update takes is the one pair the slot held. A pair whose
\* tag is neither "_import" nor "_import_respack" is back in the slot, same
\* tag and same file, when the update returns; no task is submitted for it,
\* no directory made, the respack list and RESPACK_ITEM keep their values,
\* and the import slot and the chart list change only by the poll of that
\* same update.
C16_UnknownTagHandedBack ==
    [][(last'.op = "update" /\ last'.file # "-") =>
           /\ last'.file = chosen_file.tag
           /\ last'.file \in {"_import", "_import_respack"} =>
                chosen_file' = NoFile
           /\ last'.file \notin {"_import", "_import_respack"} =>
                /\ chosen_file' = chosen_file
                /\ Len(tasks') = Len(tasks)
                /\ respacks' = respacks
                /\ root_dirs' = root_dirs
                /\ respack_item' = respack_item
                /\ import_task' \in {import_task, None}
                /\ import_task' # import_task =>
                     last'.polled \in {"ok", "err"}
                /\ charts' # charts => last'.polled = "ok"
                /\ last'.polled \in {"-", "pending"} =>
                     saved' = saved]_vars

\* an update took a pair with another tag and the slot holds it again
C16_Witness ==
    /\ last.op = "update"
    /\ last.file = "other"
    /\ chosen_file.tag = "other"
    /\ chosen_file.file # None

\* C17: the file-system work of an import is never done by an update step:
\* no update creates a directory under the respack root or brings a running
\* import task to its result; update only submits the work and polls it.
C17_ImportOffTheFrame ==
    [][last'.op = "update" =>
           /\ root_dirs' = root_dirs
           /\ \A i \in DOMAIN tasks :
                tasks[i].status = "running" =>
                    tasks'[i].status = "running"]_vars

\* C18: a transition that was started can always still complete: the scene
\* is never dead, its handlers run no more, with the transition in flight.
C18_TransitionsComplete == Transiting(fader) => ~panicked

C20_TransitingHasParent == Transiting(fader) => Len(pages) >= 2

====
